---- MODULE Spec2Model ----
(***************************************************************************)
(* Model of exporter/logic.py: Exporter.run launches one TaskExportProject *)
(* thread per project plus one TaskProgressBarPool thread and joins them.  *)
(* Each task thread is modelled statement by statement (the pc values are  *)
(* the source line numbers the thread is about to execute).  The remote    *)
(* services (GitLab search, git clone / lfs / push, GitHub REST) are the   *)
(* environment: each call either returns or raises, chosen                 *)
(* nondeterministically within what the service can answer.                *)
(***************************************************************************)
EXTENDS Naturals, Sequences, FiniteSets

\* ------------------------------------------------------------------ bounds
NTasks == 2          \* number of projects given to Exporter.run
MaxResults == 2      \* longest list search_owned_projects returns
MaxPages == 3        \* longest chain of pages a listing follows
MaxPageLen == 2      \* most items on one page

\* --------------------------------------------------------- program constants
Total == 5           \* bar.register(name, 5)

Tasks == 1..NTasks
PoolId == NTasks + 1         \* tasks.append(bar): the pool is the last task

\* conflict_policy values; "None" stands for Python's None / any other value
Policies == {"skip", "porcelain", "overwrite", "fail", "None"}

\* One search hit is a project dict ("project") or an empty dict ("empty").
\* The code reads len(r) and r[0] only, so the hits after the first are all
\* taken to be projects.
Entries == {"project", "empty"}
SearchResults ==
    {res \in UNION {[1..n -> Entries] : n \in 0..MaxResults} :
        \A k \in 2..Len(res) : res[k] = "project"}

Terminal == {"Succeeded", "Skipped", "Failed"}

VARIABLES
    conflict_policy,   \* the policy passed to Exporter.run
    login,             \* GitHubClient._login ("None" until cached)
    pc,                \* pc[i]: source line task i executes next, or its terminal state
    r,                 \* r[i]: the local r of TaskFetchGitlabProject.run
    count,             \* count[i]: bar.count of task i's reporter
    unit,              \* unit[i]: bar.unit (the label) of task i's reporter
    log,               \* log[i]: the external calls task i made, with their outcome
    exc,               \* exc[i]: the exception that left task i's run ("" if none)
    mainpc, mainK,     \* Exporter.exucute_tasks: "start"/"join"/"done" and the loop index
    poolpc, poolK,     \* TaskProgressBarPool.run: position and index in the is_finished scan
    client,            \* the client class whose _paginated_json_get is called
    pages,             \* the pages the server holds for one listing, linked by 'next'
    listing            \* how the _paginated_json_get call ended, and what it returned

vars == <<conflict_policy, login, pc, r, count, unit, log, exc,
          mainpc, mainK, poolpc, poolK, client, pages, listing>>

\* what no thread of a run writes: the policy, and the listing taken alone
pageVars == <<client, pages, listing>>
envVars == <<conflict_policy, pageVars>>
mainVars == <<mainpc, mainK>>
poolVars == <<poolpc, poolK>>

\* ------------------------------------------------------- ProgressBarWrapper

\* ProgressBarWrapper.update: enlighten's Counter.update() does count += 1
update(c) == c + 1

\* ProgressBarWrapper.set_msg: bar.unit = msg
set_msg(msg) == msg

\* Faulty variant of set_finished (C9 depends on it): the count is left as it is
set_finished_keeps_count(c) == c

\* ProgressBarWrapper.set_finished: bar.count = bar.total
set_finished(c) == Total

\* ProgressBarWrapper.is_finished
is_finished(c) == c = Total

\* ------------------------------------------------------------------ helpers

\* Thread(target=task.run).start() has been executed for thread k
Started(k) == mainpc # "start" \/ mainK > k

\* Faulty variant of ThreadRuns (C4 depends on the threads): the tasks are run
\* one after the other in the calling thread
\* (task.run() in place of Thread(target=task.run)), where an exception ends
\* the loop over the tasks
ThreadRuns_in_caller(i) ==
    /\ Started(i) /\ pc[i] \notin Terminal
    /\ \A j \in 1..(i - 1) : pc[j] \in {"Succeeded", "Skipped"}

\* Each task runs in a thread of its own: whether thread i may take its next
\* step depends on no other thread.
ThreadRuns(i) == Started(i) /\ pc[i] \notin Terminal

Goto(i, l) == pc' = [pc EXCEPT ![i] = l]

\* One external call: the operation, how it ended, and the owner it was given
\* (delete_repo only, "" otherwise).
CalledWith(i, op, res, arg) == log' = [log EXCEPT ![i] = Append(@, <<op, res, arg>>)]

Called(i, op, res) == CalledWith(i, op, res, "")

\* An exception leaves run(): the thread ends, nothing else is touched.
Raise(i, e) == /\ pc' = [pc EXCEPT ![i] = "Failed"]
               /\ exc' = [exc EXCEPT ![i] = e]

Calls(i, op) == Cardinality({k \in 1..Len(log[i]) : log[i][k][1] = op})

\* --------------------------------------------------------------------- Init

Init ==
    /\ conflict_policy \in Policies
    /\ login = "None"
    /\ pc = [i \in Tasks |-> "L125"]
    /\ r = [i \in Tasks |-> <<>>]
    /\ count = [i \in Tasks |-> 0]
    /\ unit = [i \in Tasks |-> ""]
    /\ log = [i \in Tasks |-> <<>>]
    /\ exc = [i \in Tasks |-> ""]
    /\ mainpc = "start"
    /\ mainK = 1
    /\ poolpc = "L248"
    /\ poolK = 1
    /\ client = "GitLabClient"
    /\ pages = <<>>
    /\ listing = [state |-> "idle", json |-> <<>>]

\* --------------------------------------------- TaskFetchGitlabProject.run

\* A set_msg only writes the label, which no other thread reads, so it is
\* taken in one step with the statement that follows it.

\* lines 125-126: set_msg, then the search returns a list or raises
Fetch_search(i) ==
    /\ ThreadRuns(i) /\ pc[i] = "L125"
    /\ unit' = [unit EXCEPT ![i] = set_msg("Searching for project")]
    /\ \E raised \in BOOLEAN, res \in SearchResults :
         IF raised
         THEN /\ Raise(i, "HTTPError")
              /\ Called(i, "search", "raise")
              /\ UNCHANGED r
         ELSE /\ r' = [r EXCEPT ![i] = res]
              /\ Called(i, "search", "ok")
              /\ Goto(i, "L127")
              /\ UNCHANGED exc
    /\ UNCHANGED <<envVars, login, count, mainVars, poolVars>>

\* Faulty variant of SearchError (C8 depends on it): the check of line 128 is
\* missing
SearchError_no_empty_check(res) ==
    IF Len(res) > 0 /\ res[1] = "empty" THEN "No project found" ELSE ""

\* lines 128-131: the exception the two checks raise ("" if none)
SearchError(res) ==
    IF Len(res) = 0 THEN "Multiple projects found"
    ELSE IF res[1] = "empty" THEN "No project found"
    ELSE ""

\* lines 127-137: update, then the checks on the local r, then json = r[0]
\* and the clone url (local)
Fetch_check_result(i) ==
    /\ ThreadRuns(i) /\ pc[i] = "L127"
    /\ count' = [count EXCEPT ![i] = update(@)]
    /\ IF SearchError(r[i]) # ""
       THEN Raise(i, SearchError(r[i]))
       ELSE Goto(i, "L138") /\ UNCHANGED exc
    /\ UNCHANGED <<envVars, login, r, unit, log, mainVars, poolVars>>

\* lines 138-139: set_msg, then git.Repo.clone_from returns or raises
Fetch_clone(i) ==
    /\ ThreadRuns(i) /\ pc[i] = "L138"
    /\ unit' = [unit EXCEPT ![i] = set_msg("Cloning GitLab repo")]
    /\ \E raised \in BOOLEAN :
         IF raised
         THEN Raise(i, "GitCommandError") /\ Called(i, "clone", "raise")
         ELSE Goto(i, "L140") /\ Called(i, "clone", "ok") /\ UNCHANGED exc
    /\ UNCHANGED <<envVars, login, r, count, mainVars, poolVars>>

\* line 140
Fetch_update_cloned(i) ==
    /\ ThreadRuns(i) /\ pc[i] = "L140"
    /\ count' = [count EXCEPT ![i] = update(@)]
    /\ Goto(i, "L141")
    /\ UNCHANGED <<envVars, login, r, unit, log, exc, mainVars, poolVars>>

\* Faulty variant of Fetch_lfs (C14 depends on it): the large-file fetch is
\* best effort, a failure of it is ignored and the task goes on
Fetch_lfs_best_effort(i) ==
    /\ ThreadRuns(i) /\ pc[i] = "L141"
    /\ unit' = [unit EXCEPT ![i] = set_msg("Fetching GitLab LFS files")]
    /\ \E raised \in BOOLEAN :
         Called(i, "lfs", IF raised THEN "raise" ELSE "ok")
    /\ Goto(i, "L143")
    /\ UNCHANGED <<envVars, login, r, count, exc, mainVars, poolVars>>

\* lines 141-142: set_msg, then git lfs fetch --all returns or raises
Fetch_lfs(i) ==
    /\ ThreadRuns(i) /\ pc[i] = "L141"
    /\ unit' = [unit EXCEPT ![i] = set_msg("Fetching GitLab LFS files")]
    /\ \E raised \in BOOLEAN :
         IF raised
         THEN Raise(i, "GitCommandError") /\ Called(i, "lfs", "raise")
         ELSE Goto(i, "L143") /\ Called(i, "lfs", "ok") /\ UNCHANGED exc
    /\ UNCHANGED <<envVars, login, r, count, mainVars, poolVars>>

\* line 143, first half of set_msg_and_finish(''): set_msg (line 216)
Fetch_finish_msg(i) ==
    /\ ThreadRuns(i) /\ pc[i] = "L143"
    /\ unit' = [unit EXCEPT ![i] = set_msg("")]
    /\ Goto(i, "L143f")
    /\ UNCHANGED <<envVars, login, r, count, log, exc, mainVars, poolVars>>

\* line 143, second half of set_msg_and_finish(''): set_finished (line 217);
\* then return repo (144) and TaskExportProject.run builds the push task (197)
Fetch_finish(i) ==
    /\ ThreadRuns(i) /\ pc[i] = "L143f"
    /\ count' = [count EXCEPT ![i] = set_finished(@)]
    /\ Goto(i, "L157")
    /\ UNCHANGED <<envVars, login, r, unit, log, exc, mainVars, poolVars>>

\* ------------------------------------------------------ GitHubClient (REST)

\* How create_repo (POST /user/repos) can end: "ok"; "conflict", the HTTPError
\* raise_for_status (line 51) raises when the name already exists; "http", the
\* HTTPError it raises for any other status (401, 403, 5xx); "conn", a transport
\* exception of session.post, which is no HTTPError.
CreateOutcomes == {"ok", "conflict", "http", "conn"}

\* How delete_repo (DELETE /repos/owner/name) can end
DeleteOutcomes == {"ok", "raise"}

\* line 160: except HTTPError catches every HTTPError, whatever its status
IsHTTPError(res) == res \in {"conflict", "http"}

\* Faulty variant of IsSkipPolicy (C2 depends on it): 'skip' alone is tested
IsSkipPolicy_skip_only(p) == p = "skip"

\* line 161
IsSkipPolicy(p) == p \in {"skip", "porcelain"}

\* Faulty variant of IsOverwritePolicy (C3 depends on it): the branch compares
\* with a misspelt policy name
IsOverwritePolicy_misspelt(p) == p = "overwrite "

\* line 165
IsOverwritePolicy(p) == p = "overwrite"

\* lines 161-170: where the except block goes
HandlerTarget(p) ==
    IF IsSkipPolicy(p) THEN "L163"
    ELSE IF IsOverwritePolicy(p) THEN "L166"
    ELSE "L172"

\* line 33 of the login property: if self._login is None
Login_check(i, here, fetch, next) ==
    /\ ThreadRuns(i) /\ pc[i] = here
    /\ Goto(i, IF login = "None" THEN fetch ELSE next)
    /\ UNCHANGED <<envVars, login, r, count, log, exc, mainVars, poolVars>>

\* line 34 of the login property: self._login = self.user().get('login')
Login_fetch(i, here, next) ==
    /\ ThreadRuns(i) /\ pc[i] = here
    /\ \E raised \in BOOLEAN :
         IF raised
         THEN Raise(i, "HTTPError") /\ Called(i, "user", "raise") /\ UNCHANGED login
         ELSE /\ login' = "octocat"
              /\ Called(i, "user", "ok")
              /\ Goto(i, next)
              /\ UNCHANGED exc
    /\ UNCHANGED <<envVars, r, count, unit, mainVars, poolVars>>

\* --------------------------------------------------- TaskPushToGitHub.run

\* lines 157-165: set_msg, then create_repo returns, raises an HTTPError
\* (caught: the except block branches on conflict_policy) or raises something
\* else (not caught)
Push_create_repo(i) ==
    /\ ThreadRuns(i) /\ pc[i] = "L157"
    /\ unit' = [unit EXCEPT ![i] = set_msg("Creating GitHub repo")]
    /\ \E res \in CreateOutcomes :
         /\ Called(i, "create", res)
         /\ IF res = "ok" THEN Goto(i, "L172") /\ UNCHANGED exc
            ELSE IF IsHTTPError(res)
                 THEN Goto(i, HandlerTarget(conflict_policy)) /\ UNCHANGED exc
            ELSE Raise(i, "ConnectionError")
    /\ UNCHANGED <<envVars, login, r, count, mainVars, poolVars>>

\* lines 162-163, first half of set_msg_and_finish('SKIPPED'): set_msg (line 216)
Push_skip_msg(i) ==
    /\ ThreadRuns(i) /\ pc[i] = "L163"
    /\ unit' = [unit EXCEPT ![i] = set_msg("SKIPPED")]
    /\ Goto(i, "L163f")
    /\ UNCHANGED <<envVars, login, r, count, log, exc, mainVars, poolVars>>

\* line 163, second half: set_finished (line 217); line 164: return
Push_skip_finish(i) ==
    /\ ThreadRuns(i) /\ pc[i] = "L163f"
    /\ count' = [count EXCEPT ![i] = set_finished(@)]
    /\ Goto(i, "Skipped")
    /\ UNCHANGED <<envVars, login, r, unit, log, exc, mainVars, poolVars>>

\* lines 166-168: set_msg, then the argument self.github.login is evaluated
Push_delete_login_check(i) ==
    /\ Login_check(i, "L166", "L168u", "L168d")
    /\ unit' = [unit EXCEPT ![i] = set_msg("Deleting GitHubRepo")]

Push_delete_login_fetch(i) == Login_fetch(i, "L168u", "L168d")

\* line 168: delete_repo(repo_name, login) returns or raises
Push_delete_repo(i) ==
    /\ ThreadRuns(i) /\ pc[i] = "L168d"
    /\ \E res \in DeleteOutcomes :
         /\ CalledWith(i, "delete", res, login)
         /\ IF res = "ok" THEN Goto(i, "L169") /\ UNCHANGED exc
            ELSE Raise(i, "HTTPError")
    /\ UNCHANGED <<envVars, login, r, count, unit, mainVars, poolVars>>

\* lines 169-170: set_msg, then the second create_repo; whatever it raises
\* leaves run()
Push_create_again(i) ==
    /\ ThreadRuns(i) /\ pc[i] = "L169"
    /\ unit' = [unit EXCEPT ![i] = set_msg("Creating GitHub repo")]
    /\ \E res \in CreateOutcomes :
         /\ Called(i, "create", res)
         /\ IF res = "ok" THEN Goto(i, "L172") /\ UNCHANGED exc
            ELSE Raise(i, IF IsHTTPError(res) THEN "HTTPError" ELSE "ConnectionError")
    /\ UNCHANGED <<envVars, login, r, count, mainVars, poolVars>>

\* line 172
Push_update_created(i) ==
    /\ ThreadRuns(i) /\ pc[i] = "L172"
    /\ count' = [count EXCEPT ![i] = update(@)]
    /\ Goto(i, "L173")
    /\ UNCHANGED <<envVars, login, r, unit, log, exc, mainVars, poolVars>>

\* line 173: owner = self.github.login
Push_owner_login_check(i) ==
    /\ Login_check(i, "L173", "L173u", "L176")
    /\ UNCHANGED unit

Push_owner_login_fetch(i) == Login_fetch(i, "L173u", "L176")

\* lines 174-176: create_remote returns or raises
Push_create_remote(i) ==
    /\ ThreadRuns(i) /\ pc[i] = "L176"
    /\ \E raised \in BOOLEAN :
         IF raised
         THEN Raise(i, "GitCommandError") /\ Called(i, "remote", "raise")
         ELSE Goto(i, "L177") /\ Called(i, "remote", "ok") /\ UNCHANGED exc
    /\ UNCHANGED <<envVars, login, r, count, unit, mainVars, poolVars>>

\* lines 177-178: set_msg, then remote.push() returns or raises
Push_push(i) ==
    /\ ThreadRuns(i) /\ pc[i] = "L177"
    /\ unit' = [unit EXCEPT ![i] = set_msg("Pushing to GitHub")]
    /\ \E raised \in BOOLEAN :
         IF raised
         THEN Raise(i, "GitCommandError") /\ Called(i, "push", "raise")
         ELSE Goto(i, "L179") /\ Called(i, "push", "ok") /\ UNCHANGED exc
    /\ UNCHANGED <<envVars, login, r, count, mainVars, poolVars>>

\* line 179, first half of set_msg_and_finish(''): set_msg (line 216)
Push_finish_msg(i) ==
    /\ ThreadRuns(i) /\ pc[i] = "L179"
    /\ unit' = [unit EXCEPT ![i] = set_msg("")]
    /\ Goto(i, "L179f")
    /\ UNCHANGED <<envVars, login, r, count, log, exc, mainVars, poolVars>>

\* line 179, second half: set_finished (line 217); run() returns
Push_finish(i) ==
    /\ ThreadRuns(i) /\ pc[i] = "L179f"
    /\ count' = [count EXCEPT ![i] = set_finished(@)]
    /\ Goto(i, "Succeeded")
    /\ UNCHANGED <<envVars, login, r, unit, log, exc, mainVars, poolVars>>

\* TaskExportProject.run: fetch.run() then push.run(), one statement at a time
TaskStep(i) ==
    \/ Fetch_search(i) \/ Fetch_check_result(i) \/ Fetch_clone(i) \/ Fetch_update_cloned(i)
    \/ Fetch_lfs(i) \/ Fetch_finish_msg(i) \/ Fetch_finish(i)
    \/ Push_create_repo(i) \/ Push_skip_msg(i) \/ Push_skip_finish(i)
    \/ Push_delete_login_check(i) \/ Push_delete_login_fetch(i) \/ Push_delete_repo(i)
    \/ Push_create_again(i) \/ Push_update_created(i)
    \/ Push_owner_login_check(i) \/ Push_owner_login_fetch(i)
    \/ Push_create_remote(i) \/ Push_push(i) \/ Push_finish_msg(i) \/ Push_finish(i)

\* ------------------------------------------------ TaskProgressBarPool.run

\* line 248: all([x.is_finished() for x in self.pool]) reads one reporter
\* after the other.  A reporter read as unfinished decides the result; the
\* reads after it change nothing, so the loop body is entered at once.
Pool_scan ==
    /\ Started(PoolId) /\ poolpc = "L248"
    /\ IF is_finished(count[poolK])
       THEN IF poolK = NTasks
            THEN poolpc' = "done" /\ poolK' = 1
            ELSE poolpc' = "L248" /\ poolK' = poolK + 1
       ELSE poolpc' = "L249" /\ poolK' = 1
    /\ UNCHANGED <<envVars, login, pc, r, count, unit, log, exc, mainVars>>

\* Faulty variant of Pool_refresh (C18 depends on it): the loop body calls
\* bar.update() on the reporters that are not finished, not bar.refresh()
Pool_refresh_updates ==
    /\ Started(PoolId) /\ poolpc = "L249"
    /\ poolpc' = "L248" /\ poolK' = 1
    /\ count' = [i \in Tasks |-> IF is_finished(count[i]) THEN count[i] ELSE update(count[i])]
    /\ UNCHANGED <<envVars, login, pc, r, unit, log, exc, mainVars>>

\* lines 249-250: for bar in self.pool: bar.refresh()
Pool_refresh ==
    /\ Started(PoolId) /\ poolpc = "L249"
    /\ poolpc' = "L248" /\ poolK' = 1
    /\ UNCHANGED <<envVars, login, pc, r, count, unit, log, exc, mainVars>>

PoolStep == Pool_scan \/ Pool_refresh

\* --------------------------------------------------- Exporter.exucute_tasks

\* Faulty variant of Terminated (C20 depends on it): join() returns without
\* waiting for the thread
Terminated_no_wait(k) == Started(k)

\* thread k (a task, or the pool as the last one) has terminated
Terminated(k) == IF k = PoolId THEN poolpc = "done" ELSE pc[k] \in Terminal

\* lines 271-274: start one thread per task, in list order
Main_start ==
    /\ mainpc = "start"
    /\ IF mainK = PoolId
       THEN mainpc' = "join" /\ mainK' = 1
       ELSE mainpc' = "start" /\ mainK' = mainK + 1
    /\ UNCHANGED <<envVars, login, pc, r, count, unit, log, exc, poolVars>>

\* lines 275-276: t.join() returns once thread t has terminated; after the
\* last join exucute_tasks and Exporter.run return
Main_join ==
    /\ mainpc = "join"
    /\ Terminated(mainK)
    /\ IF mainK = PoolId
       THEN mainpc' = "done" /\ mainK' = 1
       ELSE mainpc' = "join" /\ mainK' = mainK + 1
    /\ UNCHANGED <<envVars, login, pc, r, count, unit, log, exc, poolVars>>

MainStep == Main_start \/ Main_join

\* lines 261-267: the `with ensure_tmp_dir(tmp_dir) as tmp` block is left, and
\* the temporary root released, when exucute_tasks has returned
TmpReleased == mainpc = "done"

\* ------------------------------------------------------------ specification

Next == (\E i \in Tasks : TaskStep(i)) \/ PoolStep \/ MainStep

Spec == Init /\ [][Next]_vars

\* Every started thread that can run is eventually scheduled.
FairSpec ==
    /\ Spec
    /\ \A i \in Tasks : WF_vars(TaskStep(i))
    /\ WF_vars(PoolStep)
    /\ WF_vars(MainStep)

TypeOK ==
    /\ conflict_policy \in Policies
    /\ login \in {"None", "octocat"}
    /\ count \in [Tasks -> 0..(Total + 1)]
    /\ r \in [Tasks -> SearchResults]
    /\ mainpc \in {"start", "join", "done"}
    /\ poolpc \in {"L248", "L249", "done"}

\* ------------------------------------------------------- reading the log

IsCreate(e) == e[1] = "create"
IsDelete(e) == e[1] = "delete"
IsRepoCall(e) == e[1] \in {"create", "delete"}

\* the create_repo calls task i made so far, in order
Creates(i) == SelectSeq(log[i], IsCreate)
Deletes(i) == SelectSeq(log[i], IsDelete)
RepoCalls(i) == SelectSeq(log[i], IsRepoCall)

\* how the first create_repo of task i ended ("none": not called yet)
FirstCreate(i) == IF Creates(i) = <<>> THEN "none" ELSE Creates(i)[1][2]

\* some call of operation op by task i raised
Raised(i, op) == \E k \in 1..Len(log[i]) : log[i][k][1] = op /\ log[i][k][2] # "ok"

\* the retried create_repo of task i was made and failed
RetryFailed(i) == Len(Creates(i)) = 2 /\ Creates(i)[2][2] # "ok"

NoPhase2Call(i) ==
    Calls(i, "create") = 0 /\ Calls(i, "delete") = 0
        /\ Calls(i, "remote") = 0 /\ Calls(i, "push") = 0

\* ------------------------------------------------------------------ claims

\* C1: with policy 'fail' (or None), once the first create_repo failed on an
\* existing name, the task makes no delete, no second create, no remote and no
\* push, and it can only end Failed.
C1_FailPolicyPropagatesConflict ==
    \A i \in Tasks :
        (conflict_policy \in {"fail", "None"} /\ FirstCreate(i) = "conflict") =>
            /\ Calls(i, "delete") = 0
            /\ Calls(i, "create") = 1
            /\ Calls(i, "remote") = 0
            /\ Calls(i, "push") = 0
            /\ pc[i] \in Terminal => pc[i] = "Failed"

\* C2: with policy 'skip' or 'porcelain', once the first create_repo failed on
\* an existing name, the task makes no delete, no second create, no remote and
\* no push; it is on its way to Skipped, and when it is Skipped its reporter is
\* finished with label 'SKIPPED' and no exception left run().
C2_SkipOnConflict ==
    \A i \in Tasks :
        (conflict_policy \in {"skip", "porcelain"} /\ FirstCreate(i) = "conflict") =>
            /\ Calls(i, "delete") = 0
            /\ Calls(i, "create") = 1
            /\ Calls(i, "remote") = 0
            /\ Calls(i, "push") = 0
            /\ pc[i] \in {"L163", "L163f", "Skipped"}
            /\ pc[i] = "Skipped" =>
                   (is_finished(count[i]) /\ unit[i] = "SKIPPED" /\ exc[i] = "")

C2_Witness ==
    \E i \in Tasks :
        /\ conflict_policy = "porcelain"
        /\ FirstCreate(i) = "conflict"
        /\ pc[i] = "Skipped"

\* C3 as stated: with policy 'overwrite', a task whose first create_repo failed
\* on an existing name has, when it ends, called delete_repo exactly once (owner
\* = the login) and, the delete having succeeded, create_repo exactly once
\* more, after the delete; a failed delete or retried create ends it Failed
\* without a push.
C3_OverwriteDeletesExactlyOnce ==
    \A i \in Tasks :
        (conflict_policy = "overwrite" /\ FirstCreate(i) = "conflict"
            /\ pc[i] \in Terminal) =>
            /\ Len(Deletes(i)) = 1
            /\ Deletes(i)[1][3] = "octocat"
            /\ Deletes(i)[1][2] = "ok" => Len(Creates(i)) = 2
            /\ (Raised(i, "delete") \/ RetryFailed(i)) =>
                   (pc[i] = "Failed" /\ Calls(i, "push") = 0)

\* C3 amended: the owner's login is looked up (user()) before the delete when it
\* is not cached yet.  If that lookup raises, the task ends Failed with no
\* delete, no second create and no push.  Otherwise the task calls delete_repo
\* exactly once, with owner = the login, and only after a successful delete
\* create_repo exactly once more; a failed delete or retried create ends the
\* task Failed with no push.
C3_OverwriteDeleteThenCreate ==
    \A i \in Tasks :
        (conflict_policy = "overwrite" /\ FirstCreate(i) = "conflict") =>
            \* in every state: the repository calls so far are a prefix of
            \* create, delete, create
            /\ Len(RepoCalls(i)) <= 3
            /\ \A k \in 1..Len(RepoCalls(i)) :
                   RepoCalls(i)[k][1] = (IF k = 2 THEN "delete" ELSE "create")
            /\ \A k \in 1..Len(Deletes(i)) : Deletes(i)[k][3] = "octocat"
            /\ Len(Creates(i)) = 2 => (Len(Deletes(i)) = 1 /\ Deletes(i)[1][2] = "ok")
            /\ pc[i] \in Terminal =>
                   IF Len(Deletes(i)) = 0
                   THEN /\ Raised(i, "user")
                        /\ pc[i] = "Failed"
                        /\ Len(Creates(i)) = 1
                        /\ Calls(i, "push") = 0
                   ELSE /\ Deletes(i)[1][2] = "ok" => Len(Creates(i)) = 2
                        /\ (Raised(i, "delete") \/ RetryFailed(i)) =>
                               /\ pc[i] = "Failed"
                               /\ Len(Creates(i)) = (IF Raised(i, "delete") THEN 1 ELSE 2)
                               /\ Calls(i, "push") = 0

C3_Witness ==
    \E i \in Tasks :
        /\ conflict_policy = "overwrite"
        /\ FirstCreate(i) = "conflict"
        /\ Len(Deletes(i)) = 1 /\ Deletes(i)[1] = <<"delete", "ok", "octocat">>
        /\ Len(Creates(i)) = 2 /\ Creates(i)[2][2] = "ok"
        /\ pc[i] = "Succeeded"

\* task i failed before Phase 2 began: the search, the checks on its result,
\* the clone or the large-file fetch raised
FailedInPhase1(i) == pc[i] = "Failed" /\ NoPhase2Call(i) /\ Calls(i, "user") = 0

\* C4: whenever some task has failed in Phase 1, every other task still
\* reaches a terminal state (under fair scheduling of the threads); the failed
\* task is in a terminal state itself, so all tasks are.
C4_FailureIsolation ==
    (\E i \in Tasks : FailedInPhase1(i)) ~> (\A j \in Tasks : pc[j] \in Terminal)

C4_Witness ==
    \E i \in Tasks : \E j \in Tasks \ {i} :
        /\ FailedInPhase1(i)
        /\ Raised(i, "clone")
        /\ pc[j] = "Succeeded"

AllTasksTerminal == \A i \in Tasks : pc[i] \in Terminal

\* C5: once every task is in a terminal state, the pool's loop eventually
\* exits and exucute_tasks' joins complete (under fair scheduling).
C5_PoolLoopExits == AllTasksTerminal ~> (poolpc = "done" /\ mainpc = "done")

\* C6: a reporter that is finished stays finished in every later state.
C6_FinishedNeverRegresses ==
    [][\A i \in Tasks : is_finished(count[i]) => is_finished(count'[i])]_vars

\* C7: every reporter's count stays within 0..total and no step decreases it.
C7_CountBoundedMonotone ==
    /\ [](\A i \in Tasks : count[i] \in 0..Total)
    /\ [][\A i \in Tasks : count'[i] >= count[i]]_vars

\* the search of task i returned, and returned no project at all
SearchedNothing(i) == Calls(i, "search") = 1 /\ ~Raised(i, "search") /\ Len(r[i]) = 0

\* C8: a task whose search returned zero results makes no clone, large-file
\* fetch, create, delete, remote or push call, and can only end Failed, by the
\* exception raised at line 129.
C8_NoResultNoCalls ==
    \A i \in Tasks :
        SearchedNothing(i) =>
            /\ Calls(i, "clone") = 0 /\ Calls(i, "lfs") = 0
            /\ NoPhase2Call(i)
            /\ pc[i] \in {"L127", "Failed"}
            /\ pc[i] = "Failed" => exc[i] # ""

C8_Witness == \E i \in Tasks : SearchedNothing(i) /\ pc[i] = "Failed"

\* every external call task i made returned
AllCallsOk(i) == \A k \in 1..Len(log[i]) : log[i][k][2] = "ok"

\* C9: a task whose search returned exactly one project and whose calls all
\* succeeded (so the destination name was free) ends Succeeded, with one create,
\* no delete and one push, its reporter finished at 5 of 5 with an empty label.
C9_HappyPath ==
    \A i \in Tasks :
        (r[i] = <<"project">> /\ AllCallsOk(i) /\ pc[i] \in Terminal) =>
            /\ pc[i] = "Succeeded"
            /\ exc[i] = ""
            /\ Calls(i, "create") = 1
            /\ Calls(i, "delete") = 0
            /\ Calls(i, "push") = 1
            /\ count[i] = Total
            /\ is_finished(count[i])
            /\ unit[i] = ""

C9_Witness ==
    \E i \in Tasks :
        /\ r[i] = <<"project">> /\ AllCallsOk(i)
        /\ Calls(i, "push") = 1
        /\ pc[i] = "Succeeded"

\* C10: when the first create_repo fails with anything but a name conflict,
\* the task never calls delete_repo and can only end Failed, whatever the
\* conflict policy.
C10_OnlyConflictBranches ==
    \A i \in Tasks :
        FirstCreate(i) \in {"http", "conn"} =>
            /\ Calls(i, "delete") = 0
            /\ pc[i] \notin {"L163", "L163f", "Skipped"}
            /\ pc[i] \in Terminal => pc[i] = "Failed"

\* the search of task i returned more than one hit
SearchedSeveral(i) == Calls(i, "search") = 1 /\ ~Raised(i, "search") /\ Len(r[i]) > 1

\* C11: a task whose search returned more than one match makes no clone,
\* create or push call and can only end Failed.
C11_AmbiguousMatchFails ==
    \A i \in Tasks :
        SearchedSeveral(i) =>
            /\ Calls(i, "clone") = 0
            /\ Calls(i, "create") = 0
            /\ Calls(i, "push") = 0
            /\ pc[i] \in Terminal => pc[i] = "Failed"

\* C12: right after a successful Phase 1, before create_repo is attempted, the
\* reporter has received exactly three ticks and is not finished.
C12_ThreeTicksAfterFetch ==
    \A i \in Tasks :
        pc[i] = "L157" => (count[i] = 3 /\ ~is_finished(count[i]))

\* C13: a finished reporter carries a label that was passed to
\* set_msg_and_finish, '' or 'SKIPPED', in every reachable state.
C13_FinishedLabelNotStale ==
    \A i \in Tasks :
        is_finished(count[i]) => unit[i] \in {"", "SKIPPED"}

\* the k-th call of task i was operation op and returned
CallOk(i, k, op) == Len(log[i]) >= k /\ log[i][k][1] = op /\ log[i][k][2] = "ok"

\* C14: within one task the calls are made in the order search, clone,
\* large-file fetch, create: each is made only after the ones before it
\* returned, and a task whose search, result check, clone or large-file fetch
\* failed is Failed with no create, delete, remote or push call.
C14_FetchPrecedesPush ==
    \A i \in Tasks :
        /\ Calls(i, "clone") > 0 =>
               (CallOk(i, 1, "search") /\ Len(log[i]) >= 2 /\ log[i][2][1] = "clone")
        /\ Calls(i, "lfs") > 0 =>
               (CallOk(i, 2, "clone") /\ Len(log[i]) >= 3 /\ log[i][3][1] = "lfs")
        /\ ~NoPhase2Call(i) =>
               /\ CallOk(i, 1, "search") /\ CallOk(i, 2, "clone") /\ CallOk(i, 3, "lfs")
               /\ Len(log[i]) >= 4 /\ log[i][4][1] = "create"
               /\ Calls(i, "search") = 1 /\ Calls(i, "clone") = 1 /\ Calls(i, "lfs") = 1
        /\ (Raised(i, "search") \/ Raised(i, "clone") \/ Raised(i, "lfs")
              \/ exc[i] \in {"Multiple projects found", "No project found"}) =>
               (pc[i] = "Failed" /\ NoPhase2Call(i))

C14_Witness ==
    \E i \in Tasks : \E j \in Tasks :
        /\ Raised(i, "lfs") /\ pc[i] = "Failed"
        /\ Calls(j, "push") = 1 /\ pc[j] = "Succeeded"

\* the user() lookups of the shared GitHubClient that returned a login, over
\* all tasks
UserLookups ==
    UNION {{<<i, k>> : k \in {n \in 1..Len(log[i]) :
                                log[i][n][1] = "user" /\ log[i][n][2] = "ok"}} :
           i \in Tasks}

\* C15: over the whole run the current-user lookup is performed at most once,
\* whatever the interleaving of the tasks; stated here for the lookups that
\* returned a login (the value that is cached), which "at most once" includes.
C15_LoginLookedUpOnce == Cardinality(UserLookups) <= 1

\* C16: a task whose search returned zero matches fails with the not-found
\* error ('No project found'), not with the error for several matches.
C16_NotFoundError ==
    \A i \in Tasks :
        (SearchedNothing(i) /\ pc[i] = "Failed") => exc[i] = "No project found"

\* ------------------------------------------------- _paginated_json_get

\* What one page holds: a response that raise_for_status accepts, with its
\* items, or one it rejects (which has no items to read).
Items == {"a", "b"}
Pages ==
    {[ok |-> TRUE, items |-> it] :
        it \in UNION {[1..n -> Items] : n \in 0..MaxPageLen}}
      \cup {[ok |-> FALSE, items |-> <<>>]}

\* A chain of pages: page k carries a 'next' link to page k + 1, the last
\* page carries none.
PageChains == UNION {[1..n -> Pages] : n \in 1..MaxPages}

Returned(json) == [state |-> "returned", json |-> json]
Raising == [state |-> "raised", json |-> <<>>]

\* Faulty variant of GitLabClient_paginated_json_get (C17 depends on it): a
\* failure of a following page is caught and the items read so far returned
RECURSIVE GitLabClient_paginated_json_get_truncating(_, _)
GitLabClient_paginated_json_get_truncating(chain, k) ==
    IF ~chain[k].ok THEN Raising
    ELSE IF k < Len(chain)
         THEN LET rest == GitLabClient_paginated_json_get_truncating(chain, k + 1)
              IN  Returned(chain[k].items \o rest.json)
         ELSE Returned(chain[k].items)

\* GitLabClient._paginated_json_get (lines 92-98) called on the url of page k:
\* get, raise_for_status, json = r.json(), and with a 'next' link
\* json += the call on the next page, whose exception passes through
RECURSIVE GitLabClient_paginated_json_get(_, _)
GitLabClient_paginated_json_get(chain, k) ==
    IF ~chain[k].ok THEN Raising
    ELSE IF k < Len(chain)
         THEN LET rest == GitLabClient_paginated_json_get(chain, k + 1)
              IN  IF rest.state = "raised" THEN Raising
                  ELSE Returned(chain[k].items \o rest.json)
         ELSE Returned(chain[k].items)

\* GitHubClient._paginated_json_get (lines 41-47), the same code
RECURSIVE GitHubClient_paginated_json_get(_, _)
GitHubClient_paginated_json_get(chain, k) ==
    IF ~chain[k].ok THEN Raising
    ELSE IF k < Len(chain)
         THEN LET rest == GitHubClient_paginated_json_get(chain, k + 1)
              IN  IF rest.state = "raised" THEN Raising
                  ELSE Returned(chain[k].items \o rest.json)
         ELSE Returned(chain[k].items)

\* one listing: a client, a chain of pages on the server, no call made yet
PageInit ==
    /\ client \in {"GitHubClient", "GitLabClient"}
    /\ pages \in PageChains
    /\ listing = [state |-> "idle", json |-> <<>>]
    /\ conflict_policy = "None"
    /\ login = "None"
    /\ pc = [i \in Tasks |-> "L125"]
    /\ r = [i \in Tasks |-> <<>>]
    /\ count = [i \in Tasks |-> 0]
    /\ unit = [i \in Tasks |-> ""]
    /\ log = [i \in Tasks |-> <<>>]
    /\ exc = [i \in Tasks |-> ""]
    /\ mainpc = "start"
    /\ mainK = 1
    /\ poolpc = "L248"
    /\ poolK = 1

\* the call of _paginated_json_get on the first page's url
Page_list ==
    /\ listing.state = "idle"
    /\ listing' = IF client = "GitHubClient"
                  THEN GitHubClient_paginated_json_get(pages, 1)
                  ELSE GitLabClient_paginated_json_get(pages, 1)
    /\ UNCHANGED <<conflict_policy, login, pc, r, count, unit, log, exc,
                   mainVars, poolVars, client, pages>>

PageNext == Page_list

PageSpec == PageInit /\ [][PageNext]_vars

\* the items of the first n pages of the chain, page after page
RECURSIVE ItemsUpTo(_, _)
ItemsUpTo(chain, n) ==
    IF n = 0 THEN <<>> ELSE ItemsUpTo(chain, n - 1) \o chain[n].items

\* C17: a listing over a chain of pages returns the items of all pages in page
\* order when every page can be fetched, and raises, returning nothing, when
\* some page of the chain cannot.
C17_PaginationComplete ==
    listing.state # "idle" =>
        IF \A k \in 1..Len(pages) : pages[k].ok
        THEN listing = Returned(ItemsUpTo(pages, Len(pages)))
        ELSE listing = Raising

C17_Witness ==
    /\ listing.state = "returned"
    /\ Len(pages) >= 2
    /\ Len(pages[1].items) >= 1 /\ Len(pages[Len(pages)].items) >= 1
    /\ Len(listing.json) >= 2

\* C18: a reporter's count and label change only in steps of its owning task
\* (every step of a task moves its pc): no step of the pool, of the main thread
\* or of another task changes them.
C18_ReporterOwnedByTask ==
    [][\A i \in Tasks :
          pc'[i] = pc[i] => (count'[i] = count[i] /\ unit'[i] = unit[i])]_vars

\* the pool is in its loop body over an unfinished reporter while a task has
\* ticked and labelled its own
C18_Witness ==
    /\ poolpc = "L249"
    /\ \E i \in Tasks : count[i] = 2 /\ unit[i] = "Fetching GitLab LFS files"

\* C19: the pool's run loop has exited only when every task of the run is in a
\* terminal state; it does not stop rendering while a task is still in Phase 2.
C19_PoolOutlivesTasks == poolpc = "done" => AllTasksTerminal

\* C20: the shared temporary root is released only after every task thread has
\* terminated; no task is cloning into or pushing from it at that moment.
C20_TmpReleasedAfterTasks == TmpReleased => AllTasksTerminal

\* the root has been released after a run in which a task cloned into it and
\* pushed from it
C20_Witness ==
    /\ TmpReleased
    /\ \E i \in Tasks : pc[i] = "Succeeded" /\ Calls(i, "clone") = 1 /\ Calls(i, "push") = 1

====
